---- MODULE Spec2Model ----
(***************************************************************************)
(* A model of the Autana Dojo core: the privilege registry                 *)
(* (core/privilege-manager/privilege_system.py) and the specialist         *)
(* registry and task queue built on it                                     *)
(* (core/intelligence-layer/sakana_intelligence.py).                       *)
(*                                                                         *)
(* Rows of a table are the elements of a sequence, in rowid order.  Ids    *)
(* (md5 of a name and the current time, in the code) are modelled by the   *)
(* position of the row: the n-th model registered has model_id n, the n-th *)
(* specialist stored has specialist_id n, the n-th task inserted has       *)
(* task_id n.  Timestamps, names, reasons and actors are payload that no   *)
(* branch of the code reads; they are left out of the rows.  Confidences   *)
(* are in hundredths (0.85 is 85).                                         *)
(***************************************************************************)
EXTENDS Integers, Sequences, FiniteSets, TLC

VARIABLES
    registry,           \* table model_registry of privilege_registry.db
    audit,              \* table privilege_audit
    usage,              \* table capability_usage
    specialists,        \* table specialists of the intelligence database
    active_specialists, \* the in-memory dict SakanaIntelligenceLayer.active_specialists
    discoveries,        \* table pattern_discoveries
    tasks,              \* table task_queue
    statusHistory,      \* history: for each task, every value its status column has held
    dbLocked,           \* a leaked connection holds the write lock of the intelligence database
    passLog,            \* history: the rows the last process_queue fetched, and those it began
    ret,                \* how the last call ended: returned (with what) or raised
    frame               \* a call of a helper on its own: its arguments, its lists, its result

vars == <<registry, audit, usage, specialists, active_specialists, discoveries,
          tasks, statusHistory, dbLocked, passLog, ret, frame>>

privVars == <<registry, audit, usage>>
layerVars == <<specialists, active_specialists, discoveries, tasks, statusHistory,
               dbLocked, passLog, frame>>

----------------------------------------------------------------------------
(* Bounds of the model. *)

MaxModels == 2
MaxTasks == 2
MaxAudit == 3

----------------------------------------------------------------------------
(* Values. *)

\* Python's None and SQL's NULL in a text column.
NULL == "NULL"

\* No specialist / no model: the id of no row.
NoId == 0

\* A model_id that was never registered.
GhostId == 0

TRAINING == "training"
DESKTOP == "desktop"
RESTRICTED == "restricted"

PrivilegeLevel == {TRAINING, DESKTOP, RESTRICTED}

Capabilities ==
    {"file_system_read", "file_system_write", "network_access", "system_commands",
     "deployment", "external_api", "pattern_discovery", "model_training", "data_export"}

DESKTOP_PRIVILEGES == [c \in Capabilities |-> TRUE]

TRAINING_PRIVILEGES == [c \in Capabilities |-> c \in {"pattern_discovery", "model_training"}]

\* custom_privileges of a registration: none, or a dict that revokes one base
\* capability, grants another and names one that no base map has.
NoCustom == [c \in {} |-> TRUE]

SomeCustom ==
    [c \in {"model_training", "file_system_write", "gpu_access"} |-> c # "model_training"]

CustomChoices == {NoCustom, SomeCustom}

\* The capability names a caller asks about: two that every base map grants, two
\* that only DESKTOP grants, one only a custom dict names, and one nobody names.
AskedCapabilities ==
    {"pattern_discovery", "model_training", "file_system_write", "deployment",
     "gpu_access", "teleport"}

BoolStr(b) == IF b THEN "True" ELSE "False"

Returned(op, val) == [op |-> op, kind |-> "returned", val |-> val]
Raised(op, exc) == [op |-> op, kind |-> "raised", val |-> exc]

----------------------------------------------------------------------------
(* The privilege registry: privilege_system.py *)

ModelIds(reg) == 1..Len(reg)

\* get_model_privileges finds a row: WHERE model_id = ? AND is_active = 1
KnownActive(reg, m) == m \in ModelIds(reg) /\ reg[m].is_active

\* Mutant: the RESTRICTED level grants nothing.
GetModelPrivilegesRestrictedDenies(reg, m) ==
    LET row == reg[m]
        base == IF row.privilege_level = DESKTOP THEN DESKTOP_PRIVILEGES
                ELSE IF row.privilege_level = TRAINING THEN TRAINING_PRIVILEGES
                ELSE [c \in DOMAIN TRAINING_PRIVILEGES |-> FALSE]
        custom == row.custom_privileges
    IN  [c \in (DOMAIN base) \cup (DOMAIN custom) |->
            IF c \in DOMAIN custom THEN custom[c] ELSE base[c]]

\* get_model_privileges, for a row it found: the base map of the level, then
\* privileges.update(custom).
GetModelPrivileges(reg, m) ==
    LET row == reg[m]
        base == IF row.privilege_level = DESKTOP THEN DESKTOP_PRIVILEGES
                ELSE IF row.privilege_level = TRAINING THEN TRAINING_PRIVILEGES
                ELSE TRAINING_PRIVILEGES
        custom == row.custom_privileges
    IN  [c \in (DOMAIN base) \cup (DOMAIN custom) |->
            IF c \in DOMAIN custom THEN custom[c] ELSE base[c]]

\* privileges.get(capability, False)
PrivGet(privileges, capability) ==
    IF capability \in DOMAIN privileges THEN privileges[capability] ELSE FALSE

\* Mutant: the table declares UNIQUE(model_id, capability).
UsageKeyDeclared == TRUE

\* Whether capability_usage has a PRIMARY KEY or UNIQUE constraint on
\* (model_id, capability): init_database declares none (usage_id is the only key).
UsageHasUniqueKey == FALSE

UsageRow(usg, m, capability) ==
    {i \in 1..Len(usg) : usg[i].model_id = m /\ usg[i].capability = capability}

\* _track_capability_usage: INSERT ... ON CONFLICT(model_id, capability) DO UPDATE.
\* SQLite rejects the statement when no unique key matches the conflict target
\* ("ON CONFLICT clause does not match any PRIMARY KEY or UNIQUE constraint"):
\* execute raises OperationalError and nothing is written.  With a matching key
\* the statement inserts the row, or bumps the counter of the row in conflict.
TrackCapabilityUsage(usg, m, capability, allowed) ==
    IF ~UsageHasUniqueKey
    THEN [raised |-> TRUE, usage |-> usg]
    ELSE LET hit == UsageRow(usg, m, capability)
         IN  IF hit = {}
             THEN [raised |-> FALSE,
                   usage |-> Append(usg, [model_id |-> m, capability |-> capability,
                                          usage_count |-> IF allowed THEN 1 ELSE 0,
                                          blocked_attempts |-> IF allowed THEN 0 ELSE 1])]
             ELSE [raised |-> FALSE,
                   usage |-> [i \in 1..Len(usg) |->
                       IF i \in hit
                       THEN IF allowed
                            THEN [usg[i] EXCEPT !.usage_count = @ + 1]
                            ELSE [usg[i] EXCEPT !.blocked_attempts = @ + 1]
                       ELSE usg[i]]]

\* Mutant: the attempt is tracked before the model is looked up.
CheckPrivilegeCallTracksFirst(reg, usg, m, capability) ==
    LET allowed == IF KnownActive(reg, m)
                   THEN PrivGet(GetModelPrivileges(reg, m), capability)
                   ELSE FALSE
        tracked == TrackCapabilityUsage(usg, m, capability, allowed)
    IN  [raised |-> tracked.raised, val |-> allowed, usage |-> tracked.usage]

\* check_privilege: what it returns or raises, and the usage table it leaves.
CheckPrivilegeCall(reg, usg, m, capability) ==
    IF ~KnownActive(reg, m)
    THEN [raised |-> FALSE, val |-> FALSE, usage |-> usg]
    ELSE LET allowed == PrivGet(GetModelPrivileges(reg, m), capability)
             tracked == TrackCapabilityUsage(usg, m, capability, allowed)
         IN  [raised |-> tracked.raised, val |-> allowed, usage |-> tracked.usage]

\* Mutant: the INSERT replaces the newest row of the log once there is one.
AuditReplacesLast(log, m, action, old_privilege, new_privilege) ==
    LET row == [model_id |-> m, action |-> action,
                old_privilege |-> old_privilege, new_privilege |-> new_privilege]
    IN  IF log = <<>> THEN <<row>> ELSE [log EXCEPT ![Len(log)] = row]

\* _audit_action
AuditAction(log, m, action, old_privilege, new_privilege) ==
    Append(log, [model_id |-> m, action |-> action,
                 old_privilege |-> old_privilege, new_privilege |-> new_privilege])

\* Mutant: the model id is derived from the name alone and the row is written
\* with INSERT OR REPLACE, so a second registration lands on the first record.
RegisterKeepsOneRecord(reg, log, level, custom) ==
    IF reg = <<>>
    THEN [registry |-> <<[privilege_level |-> level, custom_privileges |-> custom,
                          is_active |-> TRUE]>>,
          audit |-> AuditAction(log, 1, "REGISTERED", NULL, level),
          model_id |-> 1]
    ELSE [registry |-> [reg EXCEPT ![1] = [privilege_level |-> level,
                                           custom_privileges |-> custom,
                                           is_active |-> TRUE]],
          audit |-> AuditAction(log, 1, "REGISTERED", NULL, level),
          model_id |-> 1]

\* register_model: the rows it leaves and the model_id it returns.
RegisterModelCall(reg, log, level, custom) ==
    [registry |-> Append(reg, [privilege_level |-> level, custom_privileges |-> custom,
                               is_active |-> TRUE]),
     audit |-> AuditAction(log, Len(reg) + 1, "REGISTERED", NULL, level),
     model_id |-> Len(reg) + 1]

RegisterModel(level, custom) ==
    /\ Len(registry) < MaxModels
    /\ Len(audit) < MaxAudit
    /\ LET r == RegisterModelCall(registry, audit, level, custom)
       IN  /\ registry' = r.registry
           /\ audit' = r.audit
    /\ ret' = Returned("register_model", "model_id")
    /\ UNCHANGED <<usage, layerVars>>

CheckPrivilege(m, capability) ==
    /\ LET r == CheckPrivilegeCall(registry, usage, m, capability)
       IN  /\ usage' = r.usage
           /\ ret' = IF r.raised THEN Raised("check_privilege", "OperationalError")
                     ELSE Returned("check_privilege", BoolStr(r.val))
    /\ UNCHANGED <<registry, audit, layerVars>>

\* Mutant: the request applies the level it asks for.
RequestAppliesLevel(m, new_level) ==
    /\ Len(audit) < MaxAudit
    /\ audit' = AuditAction(audit, m, "ESCALATION_REQUESTED", NULL, new_level)
    /\ registry' = IF m \in ModelIds(registry)
                   THEN [registry EXCEPT ![m].privilege_level = new_level]
                   ELSE registry
    /\ ret' = Returned("request_privilege_escalation", "request_id")
    /\ UNCHANGED <<usage, layerVars>>

\* request_privilege_escalation
RequestPrivilegeEscalation(m, new_level) ==
    /\ Len(audit) < MaxAudit
    /\ audit' = AuditAction(audit, m, "ESCALATION_REQUESTED", NULL, new_level)
    /\ ret' = Returned("request_privilege_escalation", "request_id")
    /\ UNCHANGED <<registry, usage, layerVars>>

\* Mutant: the level is read for the audit entry after the UPDATE.
ApproveReadsLevelAfterUpdate(reg, log, m, new_level) ==
    IF m \notin ModelIds(reg)
    THEN [registry |-> reg, audit |-> log, val |-> FALSE]
    ELSE [registry |-> [reg EXCEPT ![m].privilege_level = new_level],
          audit |-> AuditAction(log, m, "ESCALATION_APPROVED", new_level, new_level),
          val |-> TRUE]

\* Mutant: no check that the SELECT found a row; the UPDATE matches nothing and
\* the approval is audited all the same.
ApproveSkipsLookup(reg, log, m, new_level) ==
    IF m \notin ModelIds(reg)
    THEN [registry |-> reg,
          audit |-> AuditAction(log, m, "ESCALATION_APPROVED", NULL, new_level),
          val |-> TRUE]
    ELSE [registry |-> [reg EXCEPT ![m].privilege_level = new_level],
          audit |-> AuditAction(log, m, "ESCALATION_APPROVED",
                                reg[m].privilege_level, new_level),
          val |-> TRUE]

\* approve_privilege_escalation: SELECT privilege_level WHERE model_id = ?
\* (any row, active or not); no row: return False.
ApproveEscalationCall(reg, log, m, new_level) ==
    IF m \notin ModelIds(reg)
    THEN [registry |-> reg, audit |-> log, val |-> FALSE]
    ELSE [registry |-> [reg EXCEPT ![m].privilege_level = new_level],
          audit |-> AuditAction(log, m, "ESCALATION_APPROVED",
                                reg[m].privilege_level, new_level),
          val |-> TRUE]

ApprovePrivilegeEscalation(m, new_level) ==
    /\ LET r == ApproveEscalationCall(registry, audit, m, new_level)
       IN  /\ Len(r.audit) <= MaxAudit
           /\ registry' = r.registry
           /\ audit' = r.audit
           /\ ret' = Returned("approve_privilege_escalation", BoolStr(r.val))
    /\ UNCHANGED <<usage, layerVars>>

\* approve_privilege_escalation when the write of _audit_action fails with a
\* storage error (sqlite3.OperationalError: the database locked by another
\* process, a full disk): the UPDATE was committed by its own connection before
\* _audit_action opened another, and the exception leaves the method.
ApproveAuditFails(m, new_level) ==
    /\ m \in ModelIds(registry)
    /\ registry' = ApproveEscalationCall(registry, audit, m, new_level).registry
    /\ ret' = Raised("approve_privilege_escalation", "OperationalError")
    /\ UNCHANGED <<audit, usage, layerVars>>

\* register_model when the write of _audit_action fails the same way: the
\* INSERT INTO model_registry was committed before it.
RegisterAuditFails(level, custom) ==
    /\ Len(registry) < MaxModels
    /\ registry' = RegisterModelCall(registry, audit, level, custom).registry
    /\ ret' = Raised("register_model", "OperationalError")
    /\ UNCHANGED <<audit, usage, layerVars>>

----------------------------------------------------------------------------
(* The intelligence layer: sakana_intelligence.py *)

Pattern(name, type, confidence) == [name |-> name, type |-> type, confidence |-> confidence]

Discovered(name, type, confidence, formula) ==
    [name |-> name, type |-> type, confidence |-> confidence, formula |-> formula]

\* Mutant: a domain outside the table gets no base pattern.
GetDomainPatternsNoDefault(domain) ==
    CASE domain = "optimization" ->
            <<Pattern("golden_ratio", "geometric", 90),
              Pattern("harmonic_balance", "arithmetic", 85),
              Pattern("gradient_free", "calculus", 80)>>
      [] OTHER -> <<>>

\* _get_domain_patterns
GetDomainPatterns(domain) ==
    CASE domain = "optimization" ->
            <<Pattern("golden_ratio", "geometric", 90),
              Pattern("harmonic_balance", "arithmetic", 85),
              Pattern("gradient_free", "calculus", 80)>>
      [] domain = "prediction" ->
            <<Pattern("fibonacci_projection", "arithmetic", 88),
              Pattern("chaos_attractor", "chaos", 75),
              Pattern("bayesian_update", "statistical", 92)>>
      [] domain = "classification" ->
            <<Pattern("modular_signature", "arithmetic", 85),
              Pattern("topological_invariant", "geometric", 78),
              Pattern("entropy_measure", "information", 83)>>
      [] domain = "discovery" ->
            <<Pattern("pattern_synthesis", "algebraic", 80),
              Pattern("fractal_exploration", "geometric", 77),
              Pattern("combinatorial_search", "discrete", 82)>>
      [] OTHER ->
            <<Pattern("general_pattern", "arithmetic", 70)>>

\* Task descriptions a caller submits, and the keywords description.lower() holds.
Descriptions == {"", "Optimize warehouse inventory levels"}

Contains(description, keyword) ==
    /\ description = "Optimize warehouse inventory levels"
    /\ keyword = "optimize"

\* The draw of random.random(), random.choice and random.uniform(0.6, 0.9) in
\* _discover_task_patterns: no novel pattern, or one of a type and a confidence.
NoNovel == [type |-> NULL, confidence |-> 0]

NovelChoices ==
    {NoNovel} \cup
    {[type |-> t, confidence |-> c] : t \in {"arithmetic", "geometric", "algebraic"},
                                      c \in {60, 80}}

NovelName(n) ==
    CASE n = 0 -> "novel_pattern_0"
      [] n = 1 -> "novel_pattern_1"
      [] n = 2 -> "novel_pattern_2"
      [] OTHER -> "novel_pattern_3"

\* _discover_task_patterns
DiscoverTaskPatterns(description, draw) ==
    LET p1 == IF Contains(description, "optimize") \/ Contains(description, "maximize")
              THEN <<Discovered("optimization_pattern", "calculus", 88,
                                "local_maxima_detection")>>
              ELSE <<>>
        p2 == IF Contains(description, "predict") \/ Contains(description, "forecast")
              THEN p1 \o <<Discovered("time_series_pattern", "statistical", 85,
                                      "trend_extraction")>>
              ELSE p1
        p3 == IF Contains(description, "classify") \/ Contains(description, "categorize")
              THEN p2 \o <<Discovered("clustering_pattern", "discrete", 82,
                                      "distance_minimization")>>
              ELSE p2
    IN  IF draw = NoNovel THEN p3
        ELSE p3 \o <<Discovered(NovelName(Len(p3)), draw.type, draw.confidence,
                                "discovered_through_exploration")>>

\* abs(a - b) < 0.1 on the doubles nearest a/100 and b/100.  It is the integer
\* comparison except where the confidences are ten hundredths apart: there the
\* rounded difference falls below 0.1 for the lower values listed.
FloatNearLow ==
    {2, 5, 8, 11, 14, 19, 20, 25, 26, 27, 28, 31, 32, 33, 34, 37, 38, 39, 40, 47, 48,
     49, 50, 51, 52, 53, 54, 55, 56, 59, 60, 61, 62, 63, 64, 65, 66, 67, 68, 72, 73,
     74, 75, 76, 77, 78, 79, 80, 81, 84, 85, 86, 87, 88, 89, 90}

Min(a, b) == IF a <= b THEN a ELSE b
Abs(a) == IF a < 0 THEN -a ELSE a

ConfidenceWithinTenth(a, b) ==
    \/ Abs(a - b) < 10
    \/ Abs(a - b) = 10 /\ Min(a, b) \in FloatNearLow

\* One round of the loop of _synthesize_patterns.
SynthesizeOne(combined, new_pattern) ==
    LET exists == \E i \in 1..Len(combined) :
                      \/ combined[i].name = new_pattern.name
                      \/ /\ combined[i].type = new_pattern.type
                         /\ ConfidenceWithinTenth(combined[i].confidence,
                                                  new_pattern.confidence)
    IN  IF ~exists
        THEN Append(combined, new_pattern)
        ELSE [i \in 1..Len(combined) |->
                 IF /\ combined[i].type = new_pattern.type
                    /\ new_pattern.confidence > combined[i].confidence
                 THEN new_pattern
                 ELSE combined[i]]

RECURSIVE SynthesizeFrom(_, _, _)
SynthesizeFrom(combined, new, k) ==
    IF k > Len(new) THEN combined
    ELSE SynthesizeFrom(SynthesizeOne(combined, new[k]), new, k + 1)

\* Mutant: combined = [], the merge starts from nothing.
StartsEmpty(l) == [shared |-> FALSE, items |-> <<>>]

\* Mutant: combined = existing, the same list object under another name.
AliasList(l) == [shared |-> TRUE, items |-> l]

\* existing.copy(): a new list object holding the same items.
CopyList(l) == [shared |-> FALSE, items |-> l]

\* _synthesize_patterns on list objects: the list it returns and the lists its
\* arguments are after the call.  Every write of the loop goes to combined
\* (append, combined[i] = new_pattern), so it reaches existing only where
\* combined is the same object; nothing writes to new or into a pattern dict.
SynthesizeCall(existing, new) ==
    LET combined == CopyList(existing)
        result == SynthesizeFrom(combined.items, new, 1)
    IN  [combined |-> result,
         existing |-> IF combined.shared THEN result ELSE existing,
         new |-> new]

\* _synthesize_patterns
SynthesizePatterns(existing, new) == SynthesizeCall(existing, new).combined

\* len(json.dumps(patterns)): "[" and "]", the dicts joined by ", ", each dict
\* "{" and "}" around its '"key": value' items joined by ", ".
ConfidenceJsonLen(c) == IF c % 10 = 0 THEN 3 ELSE 4

PatternJsonLen(p) ==
    2 + (8 + Len(p.name) + 2) + 2 + (8 + Len(p.type) + 2) + 2
      + (14 + ConfidenceJsonLen(p.confidence))
      + (IF "formula" \in DOMAIN p THEN 2 + 11 + Len(p.formula) + 2 ELSE 0)

RECURSIVE PatternsJsonLenFrom(_, _)
PatternsJsonLenFrom(patterns, k) ==
    IF k > Len(patterns) THEN 0
    ELSE PatternJsonLen(patterns[k]) + (IF k < Len(patterns) THEN 2 ELSE 0)
         + PatternsJsonLenFrom(patterns, k + 1)

SerializedSize(patterns) == 2 + PatternsJsonLenFrom(patterns, 1)

\* traditional_params in train_specialist_on_task
TraditionalParams == 1000000

\* The ratio stored at creation: 1000.0
BaseCompression == 1000

\* A ratio, exactly: numerator over denominator.
Ratio(n, d) == [num |-> n, den |-> d]

\* The element of a one-element set.  {e(x) : x \in {call}} binds the result of a
\* call to the local x, evaluated once, as the code binds it.
TheOne(S) == CHOOSE v \in S : TRUE

\* The state the calls of the layer work on, and the exception that ended the call
\* ("" while none has).
World ==
    [registry |-> registry, audit |-> audit, usage |-> usage,
     specialists |-> specialists, active |-> active_specialists,
     discoveries |-> discoveries, tasks |-> tasks, hist |-> statusHistory,
     locked |-> dbLocked, exc |-> "", begun |-> <<>>, rolls |-> 0]

\* Mutant: the INSERT stores an empty pattern list, the dict entry the base patterns.
CreatePersistsNoPatterns(w, domain, level) ==
    LET reg == RegisterModelCall(w.registry, w.audit, level, NoCustom)
        w1 == [w EXCEPT !.registry = reg.registry, !.audit = reg.audit]
        base_patterns == GetDomainPatterns(domain)
    IN  IF w.locked
        THEN [w |-> [w1 EXCEPT !.exc = "OperationalError"], id |-> NoId]
        ELSE IF domain = NULL
        THEN [w |-> [w1 EXCEPT !.exc = "IntegrityError", !.locked = TRUE], id |-> NoId]
        ELSE [w |-> [w1 EXCEPT
                       !.specialists = Append(@, [domain |-> domain,
                                                  patterns |-> <<>>,
                                                  privilege_level |-> level,
                                                  compression_ratio |-> Ratio(BaseCompression, 1)]),
                       !.active = Append(@, [domain |-> domain,
                                             patterns |-> base_patterns,
                                             model_id |-> reg.model_id,
                                             privilege_level |-> level])],
              id |-> Len(w.specialists) + 1]

\* create_specialist: register the model, then INSERT INTO specialists, then add
\* the dict entry.  The INSERT raises OperationalError ("database is locked")
\* while a leaked connection holds the write lock, and IntegrityError when domain
\* is None (domain TEXT NOT NULL); the connection that failed is not closed and,
\* in the second case, keeps its open write transaction.
CreateSpecialistCall(w, domain, level) ==
    LET reg == RegisterModelCall(w.registry, w.audit, level, NoCustom)
        w1 == [w EXCEPT !.registry = reg.registry, !.audit = reg.audit]
        base_patterns == GetDomainPatterns(domain)
    IN  IF w.locked
        THEN [w |-> [w1 EXCEPT !.exc = "OperationalError"], id |-> NoId]
        ELSE IF domain = NULL
        THEN [w |-> [w1 EXCEPT !.exc = "IntegrityError", !.locked = TRUE], id |-> NoId]
        ELSE [w |-> [w1 EXCEPT
                       !.specialists = Append(@, [domain |-> domain,
                                                  patterns |-> base_patterns,
                                                  privilege_level |-> level,
                                                  compression_ratio |-> Ratio(BaseCompression, 1)]),
                       !.active = Append(@, [domain |-> domain,
                                             patterns |-> base_patterns,
                                             model_id |-> reg.model_id,
                                             privilege_level |-> level])],
              id |-> Len(w.specialists) + 1]

\* train_specialist_on_task: the world it leaves and the dict it returns
\* (named by its kind).
TrainCall(w, specialist_id, description, draw) ==
    IF specialist_id \notin 1..Len(w.active)
    THEN [w |-> w, result |-> "error: Specialist not found"]
    ELSE
    LET specialist == w.active[specialist_id]
        can_train == CheckPrivilegeCall(w.registry, w.usage, specialist.model_id,
                                        "model_training")
        w1 == [w EXCEPT !.usage = can_train.usage]
        task_patterns == DiscoverTaskPatterns(description, draw)
        enhanced_patterns == SynthesizePatterns(specialist.patterns, task_patterns)
        w2 == [w1 EXCEPT !.active[specialist_id].patterns = enhanced_patterns,
                         !.rolls = @ + 1]
    IN  IF can_train.raised
        THEN [w |-> [w1 EXCEPT !.exc = "OperationalError"], result |-> NULL]
        ELSE IF ~can_train.val
        THEN [w |-> w1, result |-> "error: Specialist lacks training privileges"]
        ELSE IF w2.locked
        THEN [w |-> [w2 EXCEPT !.exc = "OperationalError"], result |-> NULL]
        ELSE [w |-> [w2 EXCEPT
                       !.discoveries = Append(@, [specialist_id |-> specialist_id,
                                                  pattern_data |-> task_patterns,
                                                  field |-> specialist.domain,
                                                  confidence |-> 85]),
                       !.specialists[specialist_id].compression_ratio =
                           Ratio(TraditionalParams, SerializedSize(enhanced_patterns))],
              result |-> "trained"]

\* 1.618033988749895 in thousandths, the factor of fibonacci_ratio and of
\* sacred_geometry_ratios(x, "phi").
PhiMilli == 1618

\* The branch process_with_specialist takes for a pattern, in thousandths of the
\* result: x * phi for the arithmetic and geometric types, bayesian_update(x,
\* 0.8, 0.5) = 0.8 * x / 0.5 for the statistical type (no pattern of the layer
\* carries a likelihood or an evidence), the input itself for any other type.
ApplyPatternMilli(pattern, x) ==
    IF pattern.type \in {"arithmetic", "geometric"} THEN x * PhiMilli
    ELSE IF pattern.type = "statistical" THEN (8 * x * 1000) \div 5
    ELSE x * 1000

RECURSIVE WeightedSum(_, _, _)
WeightedSum(patterns, x, k) ==
    IF k > Len(patterns) THEN 0
    ELSE ApplyPatternMilli(patterns[k], x) * patterns[k].confidence
             + WeightedSum(patterns, x, k + 1)

\* process_with_specialist once the specialist is found: the privilege check,
\* then sum(result * confidence) / len(results), in units of 1e-5.  The division
\* raises ZeroDivisionError for an empty pattern list.
ProcessKnown(w, specialist_id, input_data) ==
    LET specialist == w.active[specialist_id]
        can_execute == CheckPrivilegeCall(w.registry, w.usage, specialist.model_id,
                                          "pattern_discovery")
        w1 == [w EXCEPT !.usage = can_execute.usage]
    IN  IF can_execute.raised
        THEN [w |-> [w1 EXCEPT !.exc = "OperationalError"], result |-> NULL, output |-> 0]
        ELSE IF ~can_execute.val
        THEN [w |-> w1, result |-> "error: Specialist lacks execution privileges",
              output |-> 0]
        ELSE IF specialist.patterns = <<>>
        THEN [w |-> [w1 EXCEPT !.exc = "ZeroDivisionError"], result |-> NULL, output |-> 0]
        ELSE [w |-> w1, result |-> "aggregate",
              output |-> WeightedSum(specialist.patterns, input_data, 1)
                             \div Len(specialist.patterns)]

\* Mutant: an id that is not in the dict is served with no pattern applied.
ProcessSkipsLookup(w, specialist_id, input_data) ==
    IF specialist_id \notin 1..Len(w.active)
    THEN [w |-> w, result |-> "aggregate", output |-> 0]
    ELSE ProcessKnown(w, specialist_id, input_data)

\* process_with_specialist: the world it leaves, the dict it returns (named by
\* its kind) and the "output" of that dict.
ProcessCall(w, specialist_id, input_data) ==
    IF specialist_id \notin 1..Len(w.active)
    THEN [w |-> w, result |-> "error: Specialist not found", output |-> 0]
    ELSE ProcessKnown(w, specialist_id, input_data)

\* Mutant: the candidates are not filtered by domain.
FindAnySpecialist(active, domain) ==
    IF active = <<>> THEN NoId ELSE 1

\* _find_best_specialist: max(candidates, key=pattern count), the first of the
\* largest in dict order; None without a candidate.
FindBestSpecialist(active, domain) ==
    LET candidates == {i \in 1..Len(active) : active[i].domain = domain}
    IN  IF candidates = {} THEN NoId
        ELSE CHOOSE i \in candidates :
                \A j \in candidates :
                    \/ Len(active[j].patterns) < Len(active[i].patterns)
                    \/ Len(active[j].patterns) = Len(active[i].patterns) /\ i <= j

\* Mutant: the UPDATE sets the status and leaves assigned_to.
AutoAssignStatusOnly(w, task_id) ==
    LET domain == w.tasks[task_id].domain
        specialist_id == IF domain # NULL THEN FindBestSpecialist(w.active, domain)
                         ELSE NoId
    IN  IF specialist_id # NoId
        THEN [w EXCEPT !.tasks[task_id].status = "assigned",
                       !.hist[task_id] = Append(@, "assigned")]
        ELSE w

\* _auto_assign_task: UPDATE task_queue SET assigned_to = ?, status = 'assigned'
AutoAssignTask(w, task_id) ==
    LET domain == w.tasks[task_id].domain
        specialist_id == IF domain # NULL THEN FindBestSpecialist(w.active, domain)
                         ELSE NoId
    IN  IF specialist_id # NoId
        THEN [w EXCEPT !.tasks[task_id].assigned_to = specialist_id,
                       !.tasks[task_id].status = "assigned",
                       !.hist[task_id] = Append(@, "assigned")]
        ELSE w

\* add_task_to_queue
AddTaskCall(w, description, domain, priority) ==
    IF w.locked
    THEN [w EXCEPT !.exc = "OperationalError"]
    ELSE AutoAssignTask(
             [w EXCEPT !.tasks = Append(@, [description |-> description,
                                            domain |-> domain,
                                            priority |-> priority,
                                            status |-> "pending",
                                            assigned_to |-> NoId,
                                            completed_at |-> NULL,
                                            result |-> NULL]),
                       !.hist = Append(@, <<"pending">>)],
             Len(w.tasks) + 1)

\* _update_task_status
UpdateTaskStatus(w, task_id, status, specialist_id, result) ==
    IF w.locked
    THEN [w EXCEPT !.exc = "OperationalError"]
    ELSE [w EXCEPT !.tasks[task_id].status = status,
                   !.tasks[task_id].assigned_to = specialist_id,
                   !.tasks[task_id].completed_at = "now",
                   !.tasks[task_id].result = result,
                   !.hist[task_id] = Append(@, status)]

\* Mutant: the dict is not searched.
FindOrCreateAlwaysCreates(w, task_id) ==
    CreateSpecialistCall(w, w.tasks[task_id].domain, TRAINING)

\* _find_or_create_specialist: the first dict entry of the task's domain, else a
\* new TRAINING specialist of that domain (task.get("domain", "general") is the
\* stored domain, None included: the key is always there).
FindOrCreateSpecialist(w, task_id) ==
    LET domain == w.tasks[task_id].domain
        found == {i \in 1..Len(w.active) : w.active[i].domain = domain}
    IN  IF found # {}
        THEN [w |-> w, id |-> CHOOSE i \in found : \A j \in found : i <= j]
        ELSE CreateSpecialistCall(w, domain, TRAINING)

\* CASE priority WHEN 'high' THEN 1 WHEN 'medium' THEN 2 ELSE 3 END
PriorityRank(priority) ==
    IF priority = "high" THEN 1 ELSE IF priority = "medium" THEN 2 ELSE 3

\* Mutant: the SELECT has no ORDER BY.
PendingTasksInRowidOrder(ts) ==
    SelectSeq([i \in 1..Len(ts) |-> i], LAMBDA i : ts[i].status = "pending")

\* SELECT ... WHERE status = 'pending' ORDER BY <rank>: the table is scanned in
\* rowid order and SQLite's sorter keeps rows of equal key in the order it got them.
PendingTasks(ts) ==
    LET ids == [i \in 1..Len(ts) |-> i]
        OfRank(r) == SelectSeq(ids, LAMBDA i : /\ ts[i].status = "pending"
                                                /\ PriorityRank(ts[i].priority) = r)
    IN  OfRank(1) \o OfRank(2) \o OfRank(3)

\* The body of the loop of process_queue, for one fetched row.
ProcessTask(w, task_id, draw) ==
    TheOne({
        IF spec.w.exc # "" THEN spec.w
        ELSE TheOne({
                 IF trained.w.exc # "" THEN trained.w
                 ELSE UpdateTaskStatus(trained.w, task_id, "completed", spec.id,
                                       trained.result)
                 : trained \in {TrainCall(spec.w, spec.id,
                                          w.tasks[task_id].description, draw)}})
        : spec \in {FindOrCreateSpecialist([w EXCEPT !.begun = Append(@, task_id)],
                                           task_id)}})

RECURSIVE RunQueue(_, _, _, _)
RunQueue(w, fetched, k, draws) ==
    IF k > Len(fetched) \/ w.exc # "" THEN w
    ELSE TheOne({RunQueue(w1, fetched, k + 1, draws)
                 : w1 \in {ProcessTask(w, fetched[k], draws[k])}})

NoDraws(n) == [i \in 1..n |-> NoNovel]

\* The draws a call can consume: none matters when the call with no novel
\* pattern never reaches random.random().
DrawsOf(w, n) == IF w.rolls = 0 THEN {NoDraws(n)} ELSE [1..n -> NovelChoices]

WithinBounds(w) ==
    /\ Len(w.registry) <= MaxModels
    /\ Len(w.audit) <= MaxAudit
    /\ Len(w.tasks) <= MaxTasks

\* The variables after a call of the layer that left world w.
Leaves(w) ==
    /\ WithinBounds(w)
    /\ registry' = w.registry
    /\ audit' = w.audit
    /\ usage' = w.usage
    /\ specialists' = w.specialists
    /\ active_specialists' = w.active
    /\ discoveries' = w.discoveries
    /\ tasks' = w.tasks
    /\ statusHistory' = w.hist
    /\ dbLocked' = w.locked
    /\ UNCHANGED frame

CreateSpecialist(domain, level) ==
    /\ LET r == CreateSpecialistCall(World, domain, level)
       IN  /\ Leaves(r.w)
           /\ ret' = IF r.w.exc # "" THEN Raised("create_specialist", r.w.exc)
                     ELSE Returned("create_specialist", "specialist_id")
    /\ UNCHANGED passLog

TrainSpecialistOnTask(specialist_id, description) ==
    /\ \E draw \in DrawsOf(TrainCall(World, specialist_id, description, NoNovel).w, 1) :
         LET r == TrainCall(World, specialist_id, description, draw[1])
         IN  /\ Leaves(r.w)
             /\ ret' = IF r.w.exc # "" THEN Raised("train_specialist_on_task", r.w.exc)
                       ELSE Returned("train_specialist_on_task", r.result)
    /\ UNCHANGED passLog

ProcessWithSpecialist(specialist_id, input_data) ==
    /\ LET r == ProcessCall(World, specialist_id, input_data)
       IN  /\ Leaves(r.w)
           /\ ret' = IF r.w.exc # "" THEN Raised("process_with_specialist", r.w.exc)
                     ELSE IF r.result = "aggregate"
                     THEN [op |-> "process_with_specialist", kind |-> "returned",
                           val |-> r.result, output |-> r.output]
                     ELSE Returned("process_with_specialist", r.result)
    /\ UNCHANGED passLog

AddTaskToQueue(description, domain, priority) ==
    /\ LET w == AddTaskCall(World, description, domain, priority)
       IN  /\ Leaves(w)
           /\ ret' = IF w.exc # "" THEN Raised("add_task_to_queue", w.exc)
                     ELSE Returned("add_task_to_queue", "task_id")
    /\ UNCHANGED passLog

ProcessQueue ==
    LET fetched == PendingTasks(tasks)
        n == Len(fetched)
    IN  \E draws \in DrawsOf(RunQueue(World, fetched, 1, NoDraws(n)), n) :
          \E w \in {RunQueue(World, fetched, 1, draws)} :
              /\ Leaves(w)
              /\ passLog' = [fetched |-> fetched, begun |-> w.begun]
              /\ ret' = IF w.exc # "" THEN Raised("process_queue", w.exc)
                        ELSE Returned("process_queue", "None")

\* The garbage collector finalises the leaked connection: its transaction is
\* rolled back and the write lock released.
ReleaseLeakedConnection ==
    /\ dbLocked
    /\ dbLocked' = FALSE
    /\ UNCHANGED <<privVars, specialists, active_specialists, discoveries, tasks,
                   statusHistory, passLog, ret, frame>>

----------------------------------------------------------------------------
(* The pattern engine: pattern_engine.py *)

\* Numbers of a data list are kept in ten-thousandths (0.8935 is 8935).
Scale == 10000

\* The first two detectors' tolerance and the ratio detector's threshold, in
\* ten-thousandths: 0.001 and 0.01.
FibonacciTolerance == 10
RatioVarianceLimit == 100

\* A discovery appended by discover_pattern; confidence in hundredths.
Discovery(field, pattern, confidence, formula) ==
    [field |-> field, pattern |-> pattern, confidence |-> confidence,
     formula |-> formula]

\* "best_pattern": None
None == [pattern |-> NULL]

RECURSIVE SumFrom(_, _)
SumFrom(s, k) == IF k > Len(s) THEN 0 ELSE s[k] + SumFrom(s, k + 1)

\* sum(s)
Sum(s) == SumFrom(s, 1)

\* Mutant: lists of three numbers are too short for the detector.
IsFibonacciLikeFromFour(data) ==
    /\ Len(data) >= 4
    /\ \A i \in 3..Len(data) :
          ~(Abs(data[i] - (data[i-1] + data[i-2])) > FibonacciTolerance)

\* _is_fibonacci_like
IsFibonacciLike(data) ==
    /\ Len(data) >= 3
    /\ \A i \in 3..Len(data) :
          ~(Abs(data[i] - (data[i-1] + data[i-2])) > FibonacciTolerance)

\* int(x): truncation towards zero.
IntOf(x) == IF x >= 0 THEN x \div Scale ELSE -((-x) \div Scale)

Moduli == {2, 3, 5, 7, 11}

\* Mutant: modulus 2 is not tried.
HasModularPatternOddModuli(data) ==
    \E modulus \in Moduli \ {2} :
        Cardinality({IntOf(data[i]) % modulus : i \in 1..Len(data)}) <= 2

\* _has_modular_pattern: Python's % with a positive modulus is never negative.
HasModularPattern(data) ==
    \E modulus \in Moduli :
        Cardinality({IntOf(data[i]) % modulus : i \in 1..Len(data)}) <= 2

\* a / b for b # 0, to four decimals by long division (the product a * Scale
\* does not fit 32-bit integers).
Quotient(a, b) ==
    LET n == Abs(a)
        d == Abs(b)
        r1 == (n % d) * 100
        r2 == (r1 % d) * 100
        q == (n \div d) * Scale + (r1 \div d) * 100 + (r2 \div d)
    IN  IF (a < 0) = (b < 0) THEN q ELSE -q

\* _detect_ratio_pattern: [none |-> TRUE] for None, else the average ratio.  A
\* deviation of 1 or more from the average puts the variance of fewer than a
\* hundred ratios above 0.01 on its own; the squares of smaller deviations are
\* summed in ten-thousandths.
DetectRatioPattern(data) ==
    IF Len(data) < 2 THEN [none |-> TRUE, ratio |-> 0]
    ELSE
    LET at == SelectSeq([i \in 1..(Len(data) - 1) |-> i + 1],
                        LAMBDA i : data[i-1] # 0)
        ratios == [k \in 1..Len(at) |-> Quotient(data[at[k]], data[at[k] - 1])]
        n == Len(ratios)
        avg_ratio == Sum(ratios) \div n
        squares == [k \in 1..n |-> ((ratios[k] - avg_ratio) * (ratios[k] - avg_ratio))
                                       \div Scale]
    IN  IF n = 0 THEN [none |-> TRUE, ratio |-> 0]
        ELSE IF \E k \in 1..n : Abs(ratios[k] - avg_ratio) >= Scale
        THEN [none |-> TRUE, ratio |-> 0]
        ELSE IF Sum(squares) \div n < RatioVarianceLimit
        THEN [none |-> FALSE, ratio |-> avg_ratio]
        ELSE [none |-> TRUE, ratio |-> 0]

\* The length below which _is_chaotic answers False without looking.
ChaosMinLength == 10

\* Mutant: the detector asks for eleven numbers.
IsChaoticFromEleven(data) ==
    IF Len(data) < ChaosMinLength + 1 THEN FALSE
    ELSE
    LET m == Len(data) - 1
        differences == [i \in 1..m |-> Abs(data[i+1] - data[i])]
        avg_diff == Sum(differences) \div m
        squares == [i \in 1..m |-> ((differences[i] - avg_diff)
                                        * (differences[i] - avg_diff)) \div Scale]
    IN  2 * Sum(squares) > m * avg_diff

\* _is_chaotic: variance > avg_diff * 0.5, both sides in ten-thousandths.
IsChaotic(data) ==
    IF Len(data) < ChaosMinLength THEN FALSE
    ELSE
    LET m == Len(data) - 1
        differences == [i \in 1..m |-> Abs(data[i+1] - data[i])]
        avg_diff == Sum(differences) \div m
        squares == [i \in 1..m |-> ((differences[i] - avg_diff)
                                        * (differences[i] - avg_diff)) \div Scale]
    IN  2 * Sum(squares) > m * avg_diff

\* Mutant: the first discovery is taken as the best.
FirstFound(found) == found[1]

\* max(discoveries, key=confidence): the first of the largest.
MaxByConfidence(found) ==
    found[CHOOSE i \in 1..Len(found) :
                   \A j \in 1..Len(found) :
                       \/ found[j].confidence < found[i].confidence
                       \/ found[j].confidence = found[i].confidence /\ i <= j]

\* discover_pattern(data, field); field NULL is field=None.
DiscoverPattern(data, field) ==
    LET ratio == DetectRatioPattern(data)
        fibonacci ==
            IF field \in {NULL, "arithmetic"} /\ IsFibonacciLike(data)
            THEN <<Discovery("arithmetic", "fibonacci", 95, "a[n] = a[n-1] + a[n-2]")>>
            ELSE <<>>
        modular ==
            IF field \in {NULL, "arithmetic"} /\ HasModularPattern(data)
            THEN <<Discovery("arithmetic", "modular", 88, "a[n] % m = constant")>>
            ELSE <<>>
        geometric ==
            IF field \in {NULL, "geometric"} /\ ~ratio.none /\ ratio.ratio # 0
            THEN <<[field |-> "geometric", pattern |-> "ratio", confidence |-> 92,
                    formula |-> "a[n] = a[n-1] * {ratio}", ratio |-> ratio.ratio]>>
            ELSE <<>>
        chaotic ==
            IF field \in {NULL, "chaos"} /\ IsChaotic(data)
            THEN <<Discovery("chaos", "chaotic", 78, "exhibits sensitive dependence")>>
            ELSE <<>>
        reported == fibonacci \o modular \o geometric \o chaotic
    IN  [data_length |-> Len(data),
         discoveries |-> reported,
         best_pattern |-> IF reported # <<>> THEN MaxByConfidence(reported)
                          ELSE None]

----------------------------------------------------------------------------

\* No helper is being called on its own.
NoFrame == [op |-> "none"]

\* Both databases as init_database leaves new files, and no specialist in memory.
EmptyStores ==
    /\ registry = <<>>
    /\ audit = <<>>
    /\ usage = <<>>
    /\ specialists = <<>>
    /\ active_specialists = <<>>
    /\ discoveries = <<>>
    /\ tasks = <<>>
    /\ statusHistory = <<>>
    /\ dbLocked = FALSE
    /\ passLog = [fetched |-> <<>>, begun |-> <<>>]
    /\ ret = Returned("init", "None")

Init ==
    /\ EmptyStores
    /\ frame = NoFrame

CallerModelIds == ModelIds(registry) \cup {GhostId}

NextPrivilege ==
    \/ \E level \in PrivilegeLevel, custom \in CustomChoices : RegisterModel(level, custom)
    \/ \E m \in CallerModelIds, capability \in AskedCapabilities : CheckPrivilege(m, capability)
    \/ \E m \in CallerModelIds, level \in PrivilegeLevel : RequestPrivilegeEscalation(m, level)
    \/ \E m \in CallerModelIds, level \in PrivilegeLevel : ApprovePrivilegeEscalation(m, level)

\* The privilege registry on its own.
SpecPrivilege == Init /\ [][NextPrivilege]_vars

NextStorageFailure ==
    \/ \E level \in PrivilegeLevel : RegisterModel(level, NoCustom)
    \/ \E m \in CallerModelIds, level \in PrivilegeLevel : ApprovePrivilegeEscalation(m, level)
    \/ \E m \in CallerModelIds, level \in PrivilegeLevel : ApproveAuditFails(m, level)
    \/ \E level \in PrivilegeLevel : RegisterAuditFails(level, NoCustom)

\* Registration and approval on a store whose writes can fail.
SpecStorageFailure == Init /\ [][NextStorageFailure]_vars

\* The longest pattern list handed to a helper called on its own.
MaxPatterns == 2

\* Patterns as the layer makes them: a base pattern of each of two types and a
\* discovered one, at confidences more than a tenth apart.
PatternUniverse ==
    {Pattern(nt[1], nt[2], c) :
        nt \in {<<"golden_ratio", "geometric">>, <<"novel_pattern_0", "geometric">>,
                <<"harmonic_balance", "arithmetic">>},
        c \in {60, 90}}

PatternLists == UNION {[1..n -> PatternUniverse] : n \in 0..MaxPatterns}

\* A caller holds two lists and calls _synthesize_patterns(existing, new).
InitSynthesis ==
    /\ EmptyStores
    /\ \E existing \in PatternLists, new \in PatternLists :
          frame = [op |-> "_synthesize_patterns", pc |-> "called",
                   args |-> [existing |-> existing, new |-> new],
                   existing |-> existing, new |-> new, result |-> <<>>]

\* The call returns: the caller's two lists as they are now, and the list returned.
SynthesizeReturns ==
    /\ frame.op = "_synthesize_patterns"
    /\ frame.pc = "called"
    /\ LET r == SynthesizeCall(frame.existing, frame.new)
       IN  frame' = [frame EXCEPT !.pc = "returned", !.existing = r.existing,
                                  !.new = r.new, !.result = r.combined]
    /\ UNCHANGED <<privVars, specialists, active_specialists, discoveries, tasks,
                   statusHistory, dbLocked, passLog, ret>>

\* _synthesize_patterns on its own, over every pair of lists within the bound.
SpecSynthesis == InitSynthesis /\ [][SynthesizeReturns]_vars

\* The longest list of the exhaustive short inputs, and of the two-valued long ones.
MaxData == 4
MaxLong == 10

\* Short lists take their numbers from -1..3.
DataValues == {v * Scale : v \in -1..3}

\* Long lists step between 0 and 3; they start one short of the length
\* _is_chaotic asks for.
LongValues == {0, 3 * Scale}

\* The lists of test_pattern_engine.
TestData ==
    {<<1 * Scale, 1 * Scale, 2 * Scale, 3 * Scale, 5 * Scale, 8 * Scale, 13 * Scale,
       21 * Scale>>,
     <<2 * Scale, 4 * Scale, 6 * Scale, 8 * Scale, 10 * Scale, 12 * Scale>>,
     <<2 * Scale, 6 * Scale, 18 * Scale, 54 * Scale, 162 * Scale>>,
     <<2000, 5840, 8935, 3525, 8379>>}

DataLists ==
    UNION {[1..n -> DataValues] : n \in 0..MaxData}
        \cup UNION {[1..n -> LongValues] : n \in (ChaosMinLength - 1)..MaxLong}
        \cup TestData

Fields == {NULL, "arithmetic", "geometric", "chaos"}

\* A caller holds a list and calls discover_pattern(data, field).
InitDiscovery ==
    /\ EmptyStores
    /\ \E data \in DataLists, field \in Fields :
          frame = [op |-> "discover_pattern", pc |-> "called",
                   data |-> data, field |-> field,
                   result |-> [data_length |-> 0, discoveries |-> <<>>,
                               best_pattern |-> None]]

\* The call returns its dict.
DiscoverReturns ==
    /\ frame.op = "discover_pattern"
    /\ frame.pc = "called"
    /\ frame' = [frame EXCEPT !.pc = "returned",
                              !.result = DiscoverPattern(frame.data, frame.field)]
    /\ UNCHANGED <<privVars, specialists, active_specialists, discoveries, tasks,
                   statusHistory, dbLocked, passLog, ret>>

\* discover_pattern on its own, over every list and field of the inputs.
SpecDiscovery == InitDiscovery /\ [][DiscoverReturns]_vars

Domains == {"optimization", "logistics"}

TaskDomains == {NULL, "optimization"}

Priorities == {"high", "medium", "low"}

LayerLevels == {TRAINING}

LayerDescriptions == {"Optimize warehouse inventory levels"}

CallerSpecialistIds == (1..Len(active_specialists)) \cup {NoId}

Next ==
    \/ \E domain \in Domains, level \in LayerLevels : CreateSpecialist(domain, level)
    \/ \E description \in LayerDescriptions, domain \in TaskDomains, priority \in Priorities :
          AddTaskToQueue(description, domain, priority)
    \/ ProcessQueue
    \/ ReleaseLeakedConnection

\* The specialist registry and the task queue.  create_specialist is called the
\* way every caller in the repository calls it: at the default level, TRAINING.
Spec == Init /\ [][Next]_vars

\* Queue processing keeps being run.
FairSpec == Spec /\ WF_vars(ProcessQueue)

NextTraining ==
    \/ Next
    \/ \E specialist_id \in CallerSpecialistIds, description \in LayerDescriptions :
          TrainSpecialistOnTask(specialist_id, description)

\* The layer with train_specialist_on_task called directly as well.
SpecTraining == Init /\ [][NextTraining]_vars

\* The numbers a caller asks a specialist about.
ProcessInputs == {0, 10}

NextInference ==
    \/ Next
    \/ \E specialist_id \in CallerSpecialistIds, input_data \in ProcessInputs :
          ProcessWithSpecialist(specialist_id, input_data)

\* The layer with process_with_specialist called as well.
SpecInference == Init /\ [][NextInference]_vars

NextSubmission ==
    \/ \E domain \in Domains, level \in LayerLevels : CreateSpecialist(domain, level)
    \/ \E description \in Descriptions, domain \in TaskDomains, priority \in Priorities :
          AddTaskToQueue(description, domain, priority)

\* Specialists are created and tasks submitted, the empty description included.
SpecSubmission == Init /\ [][NextSubmission]_vars

----------------------------------------------------------------------------
(* Two processes, each with its own SakanaIntelligenceLayer, on one pair of
   database files.  Each call commits on a connection of its own, so the
   processes interleave between the statements of a call: between the INSERT
   of add_task_to_queue and its _auto_assign_task, between the SELECT of
   process_queue and each round of its loop. *)

Procs == {1, 2}

\* A process between two calls; its dict is empty, as __init__ leaves it.
IdleProc ==
    [pc |-> "idle", active |-> <<>>, fetched |-> <<>>, k |-> 0, begun |-> <<>>,
     task_id |-> NoId, raced |-> FALSE]

\* The place in a process's dict of a specialist it does not hold: one that
\* another process created.  No lookup by domain finds it.
Absent ==
    [domain |-> "(absent)", patterns |-> <<>>, model_id |-> GhostId,
     privilege_level |-> RESTRICTED]

\* The dict of a process, over the ids of every stored specialist.
DictOf(p) ==
    [i \in 1..Len(specialists) |->
        IF i <= Len(frame.procs[p].active) THEN frame.procs[p].active[i] ELSE Absent]

\* The state a call of process p works on.
WorldOf(p) == [World EXCEPT !.active = DictOf(p)]

\* The shared tables after a call of a process that left world w.
LeavesShared(w) ==
    /\ WithinBounds(w)
    /\ registry' = w.registry
    /\ audit' = w.audit
    /\ usage' = w.usage
    /\ specialists' = w.specialists
    /\ discoveries' = w.discoveries
    /\ tasks' = w.tasks
    /\ statusHistory' = w.hist
    /\ dbLocked' = w.locked
    /\ UNCHANGED <<active_specialists, passLog>>

ProcCreateSpecialist(p, domain, level) ==
    /\ frame.procs[p].pc = "idle"
    /\ LET r == CreateSpecialistCall(WorldOf(p), domain, level)
       IN  /\ LeavesShared(r.w)
           /\ frame' = [frame EXCEPT !.procs[p].active = r.w.active]
           /\ ret' = IF r.w.exc # "" THEN Raised("create_specialist", r.w.exc)
                     ELSE Returned("create_specialist", "specialist_id")

\* add_task_to_queue up to its commit: the row is in the table, pending.
ProcInsertTask(p, description, domain, priority) ==
    /\ frame.procs[p].pc = "idle"
    /\ LET w == AddTaskCall([WorldOf(p) EXCEPT !.active = <<>>], description, domain,
                            priority)
       IN  /\ LeavesShared(w)
           /\ IF w.exc # ""
              THEN /\ frame' = frame
                   /\ ret' = Raised("add_task_to_queue", w.exc)
              ELSE /\ frame' = [frame EXCEPT !.procs[p].pc = "inserted",
                                             !.procs[p].task_id = Len(tasks) + 1]
                   /\ ret' = ret

\* The _auto_assign_task that ends add_task_to_queue.  raced: another process
\* has run its pass over the task since the INSERT.
ProcAutoAssign(p) ==
    /\ frame.procs[p].pc = "inserted"
    /\ LET task_id == frame.procs[p].task_id
           w == IF dbLocked THEN [WorldOf(p) EXCEPT !.exc = "OperationalError"]
                ELSE AutoAssignTask(WorldOf(p), task_id)
       IN  /\ LeavesShared(w)
           /\ frame' = [frame EXCEPT
                  !.procs[p].pc = "idle",
                  !.procs[p].raced =
                      \E q \in Procs \ {p} :
                          /\ frame.procs[q].pc = "idle"
                          /\ \E k \in 1..Len(frame.procs[q].begun) :
                                frame.procs[q].begun[k] = task_id]
           /\ ret' = IF w.exc # "" THEN Raised("add_task_to_queue", w.exc)
                     ELSE Returned("add_task_to_queue", "task_id")

\* process_queue up to its loop: the SELECT of the pending rows.
ProcFetch(p) ==
    /\ frame.procs[p].pc = "idle"
    /\ LET fetched == PendingTasks(tasks)
       IN  /\ frame' = [frame EXCEPT
                  !.procs[p].pc = IF fetched = <<>> THEN "idle" ELSE "fetched",
                  !.procs[p].fetched = fetched,
                  !.procs[p].k = IF fetched = <<>> THEN 0 ELSE 1,
                  !.procs[p].begun = <<>>]
           /\ ret' = IF fetched = <<>> THEN Returned("process_queue", "None") ELSE ret
    /\ UNCHANGED <<privVars, specialists, active_specialists, discoveries, tasks,
                   statusHistory, dbLocked, passLog>>

\* One round of the loop of process_queue; an exception ends the pass.
ProcProcessTask(p) ==
    /\ frame.procs[p].pc = "fetched"
    /\ LET me == frame.procs[p]
           task_id == me.fetched[me.k]
       IN  \E draws \in DrawsOf(ProcessTask(WorldOf(p), task_id, NoNovel), 1) :
             \E w \in {ProcessTask(WorldOf(p), task_id, draws[1])} :
                 LET over == w.exc # "" \/ me.k = Len(me.fetched)
                 IN  /\ LeavesShared(w)
                     /\ frame' = [frame EXCEPT
                            !.procs[p].active = w.active,
                            !.procs[p].begun = Append(@, task_id),
                            !.procs[p].k = IF over THEN 0 ELSE @ + 1,
                            !.procs[p].fetched = IF over THEN <<>> ELSE @,
                            !.procs[p].pc = IF over THEN "idle" ELSE "fetched"]
                     /\ ret' = IF w.exc # "" THEN Raised("process_queue", w.exc)
                               ELSE IF over THEN Returned("process_queue", "None")
                               ELSE ret

InitProcesses ==
    /\ EmptyStores
    /\ frame = [op |-> "processes", procs |-> [p \in Procs |-> IdleProc]]

\* What the two processes ask for: specialists of one domain, and tasks of that
\* domain or of none, at the default priority.
ProcDomains == {"optimization"}
ProcPriorities == {"medium"}

NextProcesses ==
    \/ \E p \in Procs, domain \in ProcDomains, level \in LayerLevels :
          ProcCreateSpecialist(p, domain, level)
    \/ \E p \in Procs, description \in LayerDescriptions, domain \in TaskDomains,
          priority \in ProcPriorities : ProcInsertTask(p, description, domain, priority)
    \/ \E p \in Procs : ProcAutoAssign(p)
    \/ \E p \in Procs : ProcFetch(p)
    \/ \E p \in Procs : ProcProcessTask(p)
    \/ ReleaseLeakedConnection

\* Two processes submitting tasks and running the queue.
SpecProcesses == InitProcesses /\ [][NextProcesses]_vars

----------------------------------------------------------------------------
(* Task queue claims *)

Terminal == {"completed", "failed"}

StatusSteps == {<<"pending", "assigned">>, <<"assigned", "completed">>, <<"pending", "failed">>}

C2_StatusFields ==
    \A t \in 1..Len(tasks) :
        /\ tasks[t].status = "completed" =>
               tasks[t].result # NULL /\ tasks[t].completed_at # NULL
        /\ tasks[t].status = "assigned" => tasks[t].assigned_to # NoId

C2_Witness ==
    \E t \in 1..Len(tasks) :
        /\ tasks[t].status = "assigned"
        /\ tasks[t].assigned_to \in 1..Len(active_specialists)

\* The registry or the audit log is as long as the model lets it grow: a pass
\* that registers a specialist no longer fits.
AtBound == Len(registry) >= MaxModels \/ Len(audit) >= MaxAudit

\* C3: with process_queue run again and again, every submitted task eventually
\* reaches a terminal status.  Runs the bounds cut short are not counted against
\* the claim.
C3_EveryTaskTerminates ==
    \A t \in 1..MaxTasks :
        (t <= Len(tasks)) ~> (\/ t <= Len(tasks) /\ tasks[t].status \in Terminal
                              \/ AtBound)

\* The tier of a priority, as the claim orders them.
Tier(priority) ==
    CASE priority = "high" -> 1 [] priority = "medium" -> 2 [] priority = "low" -> 3

\* C4: a pass fetches exactly the tasks that were pending when it began, high
\* before medium before low and in submission order within a priority, and it
\* takes them up in that order.
C4_PassOrder ==
    [][ProcessQueue =>
        LET f == passLog'.fetched
            b == passLog'.begun
        IN  /\ {f[i] : i \in 1..Len(f)} = {t \in 1..Len(tasks) : tasks[t].status = "pending"}
            /\ \A i, j \in 1..Len(f) :
                   i < j => \/ Tier(tasks[f[i]].priority) < Tier(tasks[f[j]].priority)
                            \/ /\ Tier(tasks[f[i]].priority) = Tier(tasks[f[j]].priority)
                               /\ f[i] < f[j]
            /\ Len(b) <= Len(f)
            /\ \A i \in 1..Len(b) : b[i] = f[i]
    ]_vars

\* A pass fetched a task ahead of one submitted before it, and took it up.
C4_Witness ==
    /\ ret.op = "process_queue"
    /\ passLog.begun # <<>>
    /\ \E i, j \in 1..Len(passLog.fetched) :
           i < j /\ passLog.fetched[i] > passLog.fetched[j]

----------------------------------------------------------------------------
(* Privilege registry claims *)

\* C7: a check on a model_id with no active row returns False and leaves the
\* registry, the audit log and the usage counters as they were.
C7_UnknownModelCheck ==
    [][\A m \in CallerModelIds, c \in AskedCapabilities :
          (~KnownActive(registry, m) /\ CheckPrivilege(m, c)) =>
              /\ ret' = Returned("check_privilege", "False")
              /\ UNCHANGED <<registry, audit, usage>>
    ]_vars

\* A check on an unregistered id returned while models were registered.
C7_Witness ==
    /\ ret = Returned("check_privilege", "False")
    /\ registry # <<>>
    /\ usage = <<>>

\* The effective map as the claim gives it.
EffectiveByClaim(row, c) ==
    IF c \in DOMAIN row.custom_privileges THEN row.custom_privileges[c]
    ELSE IF row.privilege_level = DESKTOP THEN c \in Capabilities
    ELSE c \in {"pattern_discovery", "model_training"}

\* C8: a check on a registered active model returns the value of the effective map.
C8_CheckReturnsEffective ==
    [][\A m \in CallerModelIds, c \in AskedCapabilities :
          (KnownActive(registry, m) /\ CheckPrivilege(m, c)) =>
              ret' = Returned("check_privilege", BoolStr(EffectiveByClaim(registry[m], c)))
    ]_vars

Count(usg, m, c) ==
    IF UsageRow(usg, m, c) = {} THEN [allowed |-> 0, blocked |-> 0]
    ELSE LET i == CHOOSE i \in UsageRow(usg, m, c) : TRUE
         IN  [allowed |-> usg[i].usage_count, blocked |-> usg[i].blocked_attempts]

\* C9: a check on a known active model adds one to the allowed or the blocked
\* count of the one row of that (model_id, capability) and changes no other row.
C9_CheckCounts ==
    [][\A m \in CallerModelIds, c \in AskedCapabilities :
          (KnownActive(registry, m) /\ CheckPrivilege(m, c)) =>
              /\ Cardinality(UsageRow(usage', m, c)) = 1
              /\ LET allowed == EffectiveByClaim(registry[m], c)
                     before == Count(usage, m, c)
                     after == Count(usage', m, c)
                 IN  /\ after.allowed = before.allowed + (IF allowed THEN 1 ELSE 0)
                     /\ after.blocked = before.blocked + (IF allowed THEN 0 ELSE 1)
              /\ \A m2 \in CallerModelIds, c2 \in AskedCapabilities :
                     <<m2, c2>> # <<m, c>> => Count(usage', m2, c2) = Count(usage, m2, c2)
    ]_vars

\* C10: a request appends one ESCALATION_REQUESTED entry and changes no
\* privilege row, so every check ends the same before and after it.
C10_RequestOnlyAudits ==
    [][\A m \in CallerModelIds, level \in PrivilegeLevel :
          RequestPrivilegeEscalation(m, level) =>
              /\ registry' = registry
              /\ usage' = usage
              /\ audit' = Append(audit, [model_id |-> m, action |-> "ESCALATION_REQUESTED",
                                          old_privilege |-> NULL, new_privilege |-> level])
              /\ \A m2 \in CallerModelIds, c \in AskedCapabilities :
                     CheckPrivilegeCall(registry', usage', m2, c)
                         = CheckPrivilegeCall(registry, usage, m2, c)
    ]_vars

\* An escalation to DESKTOP was requested for a registered TRAINING model.
C10_Witness ==
    /\ ret.op = "request_privilege_escalation"
    /\ \E i \in 1..Len(audit) :
           /\ audit[i].action = "ESCALATION_REQUESTED"
           /\ audit[i].new_privilege = DESKTOP
           /\ audit[i].model_id \in ModelIds(registry)
           /\ registry[audit[i].model_id].privilege_level = TRAINING

\* C11: an approval that succeeds sets the model's level to the new level, leaves
\* every other row as it was and appends one ESCALATION_APPROVED entry with the
\* level the model had before as old_privilege and the new level as new_privilege.
C11_ApproveSetsLevelAndAudits ==
    [][\A m \in CallerModelIds, level \in PrivilegeLevel :
          (m \in ModelIds(registry) /\ ApprovePrivilegeEscalation(m, level)) =>
              /\ ret' = Returned("approve_privilege_escalation", "True")
              /\ registry' = [registry EXCEPT ![m].privilege_level = level]
              /\ audit' = Append(audit, [model_id |-> m, action |-> "ESCALATION_APPROVED",
                                          old_privilege |-> registry[m].privilege_level,
                                          new_privilege |-> level])
    ]_vars

\* A TRAINING model was approved to DESKTOP while another model is registered.
C11_Witness ==
    /\ ret = Returned("approve_privilege_escalation", "True")
    /\ Len(registry) >= 2
    /\ audit # <<>>
    /\ LET e == audit[Len(audit)]
       IN  /\ e.action = "ESCALATION_APPROVED"
           /\ e.old_privilege = TRAINING
           /\ e.new_privilege = DESKTOP
           /\ registry[e.model_id].privilege_level = DESKTOP

\* C12: an approval for a model_id with no row returns False and leaves the
\* registry and the audit log as they were.
C12_ApproveUnknownChangesNothing ==
    [][\A m \in CallerModelIds, level \in PrivilegeLevel :
          (m \notin ModelIds(registry) /\ ApprovePrivilegeEscalation(m, level)) =>
              /\ ret' = Returned("approve_privilege_escalation", "False")
              /\ UNCHANGED <<registry, audit, usage>>
    ]_vars

\* An approval for an unregistered id returned False while a model is registered.
C12_Witness ==
    /\ ret = Returned("approve_privilege_escalation", "False")
    /\ registry # <<>>
    /\ \A i \in 1..Len(audit) : audit[i].action # "ESCALATION_APPROVED"

\* The model was registered the way create_specialist registers a TRAINING
\* specialist: at level TRAINING, with no custom privileges.
CreatedAsTraining(m) ==
    /\ DOMAIN registry[m].custom_privileges = {}
    /\ \E i \in 1..Len(audit) : /\ audit[i].model_id = m
                                 /\ audit[i].action = "REGISTERED"
                                 /\ audit[i].new_privilege = TRAINING

ApprovalsToDesktop(m) ==
    {i \in 1..Len(audit) : /\ audit[i].model_id = m
                            /\ audit[i].action = "ESCALATION_APPROVED"
                            /\ audit[i].new_privilege = DESKTOP}

\* C13: for a model created as a TRAINING specialist, a check of
\* file_system_write returns False as long as no approval to DESKTOP has been
\* made for it, whatever was requested, and returns True in the state right
\* after the first such approval.
C13_WriteDeniedUntilApproved ==
    [][\A m \in ModelIds(registry) :
          (CreatedAsTraining(m) /\ CheckPrivilege(m, "file_system_write")) =>
              /\ ApprovalsToDesktop(m) = {} =>
                     ret' = Returned("check_privilege", "False")
              /\ ApprovalsToDesktop(m) = {Len(audit)} =>
                     ret' = Returned("check_privilege", "True")
    ]_vars

\* C14: every step leaves the audit log of the state before it in place,
\* entry for entry, and at most adds entries after it.
C14_AuditAppendOnly ==
    [][/\ Len(audit') >= Len(audit)
       /\ SubSeq(audit', 1, Len(audit)) = audit
    ]_vars

\* The log holds a registration, then a request, then an approval.
C14_Witness ==
    /\ Len(audit) >= 3
    /\ audit[1].action = "REGISTERED"
    /\ audit[2].action = "ESCALATION_REQUESTED"
    /\ audit[3].action = "ESCALATION_APPROVED"
    /\ ret.op = "approve_privilege_escalation"

LevelEntries(m) ==
    {i \in 1..Len(audit) : /\ audit[i].model_id = m
                            /\ audit[i].action \in {"REGISTERED", "ESCALATION_APPROVED"}}

\* C15: the level of every registered model is the new_privilege of the newest
\* REGISTERED or ESCALATION_APPROVED entry the audit log holds for it, also
\* where a write of the store has failed.
C15_LevelIsAudited ==
    \A m \in ModelIds(registry) :
        /\ LevelEntries(m) # {}
        /\ LET newest == CHOOSE i \in LevelEntries(m) : \A j \in LevelEntries(m) : j <= i
           IN  audit[newest].new_privilege = registry[m].privilege_level

SynthesisReturned == frame.op = "_synthesize_patterns" /\ frame.pc = "returned"

\* C16: _synthesize_patterns(P, []) returns P, entry for entry.
C16_SynthesisWithNothingNew ==
    (SynthesisReturned /\ frame.args.new = <<>>) => frame.result = frame.args.existing

\* A list of two patterns of one type was merged with the empty list.
C16_Witness ==
    /\ SynthesisReturned
    /\ frame.args.new = <<>>
    /\ Len(frame.args.existing) = 2
    /\ frame.args.existing[1].type = frame.args.existing[2].type
    /\ frame.args.existing[1].name # frame.args.existing[2].name

\* C17: _synthesize_patterns(P, P) returns P: same length, entries and order.
C17_SynthesisWithItself ==
    (SynthesisReturned /\ frame.args.new = frame.args.existing) =>
        frame.result = frame.args.existing

\* C19: after _synthesize_patterns(existing, new) the two lists passed in hold
\* the entries they held at the call, in the same order.
C19_SynthesisLeavesInputs ==
    SynthesisReturned =>
        /\ frame.existing = frame.args.existing
        /\ frame.new = frame.args.new

\* A merge replaced an entry and appended one, and returned a list other than
\* the one passed in.
C19_Witness ==
    /\ SynthesisReturned
    /\ Len(frame.result) > Len(frame.args.existing)
    /\ \E i \in 1..Len(frame.args.existing) : frame.result[i] # frame.args.existing[i]

\* No two entries of a pattern list have the same name, and no two of the same
\* type have confidences less than a tenth apart.
NoNearDuplicates(patterns) ==
    \A i, j \in 1..Len(patterns) :
        i < j => /\ patterns[i].name # patterns[j].name
                 /\ patterns[i].type = patterns[j].type =>
                        Abs(patterns[i].confidence - patterns[j].confidence) >= 10

----------------------------------------------------------------------------
(* Specialist registry, submission and error handling claims *)

\* C21: every specialist of the in-memory registry references, through its
\* model_id, one existing record of the privilege registry, and no two
\* specialists reference the same record.
C21_OneRecordPerSpecialist ==
    \A i \in 1..Len(active_specialists) :
        /\ active_specialists[i].model_id \in ModelIds(registry)
        /\ \A j \in 1..Len(active_specialists) :
              active_specialists[j].model_id = active_specialists[i].model_id => j = i

\* Two specialists have been created.
C21_Witness ==
    /\ Len(active_specialists) >= 2
    /\ ret = Returned("create_specialist", "specialist_id")

\* The specialists of the in-memory registry that have the domain.
OfDomain(domain) ==
    {i \in 1..Len(active_specialists) : active_specialists[i].domain = domain}

\* C22: a submission that returns has inserted the task as pending and then
\* auto-assigned it: with a non-null domain that some specialist has, the task
\* is assigned to a specialist of that domain whose pattern count is the largest
\* among them; otherwise it stays pending with no assigned specialist.
C22_SubmitAutoAssigns ==
    [][\A description \in LayerDescriptions, domain \in TaskDomains, priority \in Priorities :
          (AddTaskToQueue(description, domain, priority) /\ ret'.kind = "returned") =>
              LET task_id == Len(tasks) + 1
                  task == tasks'[task_id]
              IN  /\ Len(tasks') = task_id
                  /\ SubSeq(tasks', 1, Len(tasks)) = tasks
                  /\ statusHistory'[task_id][1] = "pending"
                  /\ task.domain = domain
                  /\ IF domain # NULL /\ OfDomain(domain) # {}
                     THEN /\ task.status = "assigned"
                          /\ statusHistory'[task_id] = <<"pending", "assigned">>
                          /\ task.assigned_to \in OfDomain(domain)
                          /\ \A j \in OfDomain(domain) :
                                Len(active_specialists[j].patterns)
                                    <= Len(active_specialists[task.assigned_to].patterns)
                     ELSE /\ task.status = "pending"
                          /\ statusHistory'[task_id] = <<"pending">>
                          /\ task.assigned_to = NoId
    ]_vars

\* A task was auto-assigned while a specialist of another domain exists as well,
\* and a task was left pending.
C22_Witness ==
    /\ ret = Returned("add_task_to_queue", "task_id")
    /\ Len(tasks) = 2
    /\ tasks[2].status = "assigned"
    /\ tasks[1].status = "pending"
    /\ \E i \in 1..Len(active_specialists) :
          active_specialists[i].domain # tasks[2].domain

\* C23: process_with_specialist returns an aggregate only for a specialist that
\* exists and whose pattern_discovery check is true; for an unknown id it
\* returns the not-found error and records no usage; for a denied check it
\* returns the privilege error; and a call that returns an error changes no
\* specialist's patterns.
C23_InferErrors ==
    [][\A specialist_id \in CallerSpecialistIds, input_data \in ProcessInputs :
          ProcessWithSpecialist(specialist_id, input_data) =>
              LET known == specialist_id \in 1..Len(active_specialists)
                  check == CheckPrivilegeCall(registry, usage,
                               active_specialists[specialist_id].model_id,
                               "pattern_discovery")
                  NotFound == Returned("process_with_specialist",
                                       "error: Specialist not found")
                  Denied == Returned("process_with_specialist",
                                     "error: Specialist lacks execution privileges")
              IN  /\ (ret'.kind = "returned" /\ ret'.val = "aggregate") =>
                         known /\ ~check.raised /\ check.val
                  /\ ~known => ret' = NotFound /\ usage' = usage
                  /\ (known /\ ~check.raised /\ ~check.val) => ret' = Denied
                  /\ ret' = NotFound => ~known
                  /\ ret' \in {NotFound, Denied} =>
                         active_specialists' = active_specialists
    ]_vars

\* A call with an unknown id returned the not-found error while a specialist exists.
C23_Witness ==
    /\ ret = Returned("process_with_specialist", "error: Specialist not found")
    /\ Len(active_specialists) >= 1

\* C24: no call of the layer ends by raising: each returns its value or an
\* error payload, in every reachable state and for every input, an unknown id
\* and a pending task with a null domain included.
C24_NeverRaises ==
    ret.kind # "raised"

\* C25: a call that fails leaves no part of its work: a create_specialist that
\* raises leaves the privilege registry, the audit log, the specialists table
\* and the in-memory registry as they were, and a train_specialist_on_task that
\* raises leaves the discoveries and every in-memory pattern list as they were.
C25_FailureLeavesNothing ==
    [][/\ \A domain \in Domains, level \in LayerLevels :
             (CreateSpecialist(domain, level) /\ ret'.kind = "raised") =>
                 UNCHANGED <<registry, audit, specialists, active_specialists>>
       /\ \A specialist_id \in CallerSpecialistIds, description \in LayerDescriptions :
             (TrainSpecialistOnTask(specialist_id, description) /\ ret'.kind = "raised") =>
                 UNCHANGED <<discoveries, active_specialists>>
    ]_vars

\* C26: a submission with an empty description returns a validation error
\* payload, not a task id, and inserts no task.
C26_EmptyDescriptionRejected ==
    [][\A domain \in TaskDomains, priority \in Priorities :
          AddTaskToQueue("", domain, priority) =>
              /\ ret'.kind = "returned"
              /\ ret'.val # "task_id"
              /\ tasks' = tasks
    ]_vars

----------------------------------------------------------------------------
(* Pattern engine claims *)

\* discover_pattern has returned to its caller.
DiscoverReturned == frame.op = "discover_pattern" /\ frame.pc = "returned"

\* Each element from the third on is the sum of the two before it.
SumOfTwoBefore(data) ==
    /\ Len(data) >= 3
    /\ \A i \in 3..Len(data) : data[i] = data[i-1] + data[i-2]

\* C27: for a list of three or more numbers in which each from the third on is
\* the sum of the two before it, discover_pattern (with no field, or the field
\* of the detector) reports a fibonacci pattern with confidence 0.95, and that
\* discovery is the best_pattern.
C27_FibonacciReported ==
    (DiscoverReturned /\ frame.field \in {NULL, "arithmetic"} /\ SumOfTwoBefore(frame.data)) =>
        LET fibonacci == Discovery("arithmetic", "fibonacci", 95, "a[n] = a[n-1] + a[n-2]")
        IN  /\ \E i \in 1..Len(frame.result.discoveries) :
                  frame.result.discoveries[i] = fibonacci
            /\ frame.result.best_pattern = fibonacci

\* The call returned for the fibonacci list of the test, and for a list of
\* three numbers.
C27_Witness ==
    /\ DiscoverReturned
    /\ frame.field = NULL
    /\ SumOfTwoBefore(frame.data)
    /\ Len(frame.data) \in {3, 8}
    /\ frame.data[1] # 0
    /\ Len(frame.result.discoveries) >= 2

\* C28: best_pattern is a reported discovery of the largest confidence, the
\* earliest of those that share it, and it is None exactly when nothing was
\* reported.
C28_BestIsFirstMaximum ==
    DiscoverReturned =>
        LET found == frame.result.discoveries
            best == frame.result.best_pattern
        IN  /\ (best = None) <=> (found = <<>>)
            /\ found # <<>> =>
                   \E i \in 1..Len(found) :
                       /\ best = found[i]
                       /\ \A j \in 1..Len(found) :
                              /\ found[j].confidence <= found[i].confidence
                              /\ found[j].confidence = found[i].confidence => i <= j

\* Three discoveries were reported and the best is not the first of them.
C28_Witness ==
    /\ DiscoverReturned
    /\ Len(frame.result.discoveries) >= 3
    /\ frame.result.best_pattern # frame.result.discoveries[1]
    /\ frame.result.best_pattern # None

\* The list test_pattern_engine calls chaotic: [0.2, 0.584, 0.8935, 0.3525, 0.8379].
ChaoticTestData == <<2000, 5840, 8935, 3525, 8379>>

\* For a list of whole numbers: the variance of the consecutive absolute
\* differences d[1..m] exceeds half their mean.  With t their sum this is
\* sum((m*d[i] - t)^2) / m^3 > t / (2*m), compared without dividing.
VarianceAboveHalfMean(data) ==
    LET m == Len(data) - 1
        d == [i \in 1..m |-> Abs(data[i+1] - data[i]) \div Scale]
        t == Sum(d)
    IN  /\ \A i \in 1..Len(data) : data[i] % Scale = 0
        /\ 2 * Sum([i \in 1..m |-> (m * d[i] - t) * (m * d[i] - t)]) > t * m * m

ChaosReported ==
    \E i \in 1..Len(frame.result.discoveries) :
        frame.result.discoveries[i]
            = Discovery("chaos", "chaotic", 78, "exhibits sensitive dependence")

\* C29 as stated: discover_pattern reports a chaos pattern with confidence 0.78
\* for the five-number list of the test, and for every list of ten or more
\* numbers whose consecutive absolute differences have a variance above half
\* their mean.
C29_ChaosForTestList ==
    (DiscoverReturned /\ frame.field \in {NULL, "chaos"}) =>
        /\ frame.data = ChaoticTestData => ChaosReported
        /\ (Len(frame.data) >= 10 /\ VarianceAboveHalfMean(frame.data)) => ChaosReported

\* C29, amended: discover_pattern reports no chaos pattern for the five-number
\* list of the test, which is shorter than ten; it reports one with confidence
\* 0.78 for every list of ten or more numbers whose consecutive absolute
\* differences have a variance above half their mean.
C29_ChaosFromTen ==
    (DiscoverReturned /\ frame.field \in {NULL, "chaos"}) =>
        /\ frame.data = ChaoticTestData => ~ChaosReported
        /\ (Len(frame.data) >= 10 /\ VarianceAboveHalfMean(frame.data)) => ChaosReported

\* A chaos pattern was reported for a list of ten numbers.
C29_Witness ==
    /\ DiscoverReturned
    /\ frame.field = NULL
    /\ Len(frame.data) >= 10
    /\ VarianceAboveHalfMean(frame.data)
    /\ ChaosReported

\* C30: for one incoming pattern p and an existing list with no two entries of
\* one name and no two of one type within 0.1 of each other.  When p is a duplicate (an entry has its
\* name, or its type and a confidence within 0.1) and its confidence is
\* strictly greater than that of the first entry of its type, the result is the
\* existing list with that first entry replaced by p and every other entry and
\* the length as they were; when p is a duplicate without the greater
\* confidence the result is the existing list; when p is no duplicate the
\* result is the existing list with p appended.
C30_ReplacesFirstOfField ==
    (SynthesisReturned /\ Len(frame.args.new) = 1
                       /\ NoNearDuplicates(frame.args.existing)) =>
        LET existing == frame.args.existing
            p == frame.args.new[1]
            duplicate == \E i \in 1..Len(existing) :
                             \/ existing[i].name = p.name
                             \/ /\ existing[i].type = p.type
                                /\ Abs(existing[i].confidence - p.confidence) < 10
            ofField == {i \in 1..Len(existing) : existing[i].type = p.type}
            first == CHOOSE i \in ofField : \A j \in ofField : i <= j
        IN  frame.result =
                IF ~duplicate THEN Append(existing, p)
                ELSE IF ofField # {} /\ p.confidence > existing[first].confidence
                THEN [existing EXCEPT ![first] = p]
                ELSE existing

NextEscalation ==
    \/ \E domain \in Domains, level \in PrivilegeLevel : CreateSpecialist(domain, level)
    \/ \E m \in CallerModelIds, level \in PrivilegeLevel : RequestPrivilegeEscalation(m, level)
    \/ \E m \in CallerModelIds, level \in PrivilegeLevel : ApprovePrivilegeEscalation(m, level)
    \/ \E specialist_id \in CallerSpecialistIds, description \in LayerDescriptions :
          TrainSpecialistOnTask(specialist_id, description)
    \/ \E specialist_id \in CallerSpecialistIds, input_data \in ProcessInputs :
          ProcessWithSpecialist(specialist_id, input_data)

\* Specialists created at any level, with the levels of their models changed
\* through the privilege system behind the layer.
SpecEscalation == Init /\ [][NextEscalation]_vars

----------------------------------------------------------------------------
(* Two callers of approve_privilege_escalation on one database *)

\* The callers of approve_privilege_escalation, each with its own connections.
Approvers == {1, 2}

\* A caller outside a call.
IdleCall == [pc |-> "idle", model_id |-> GhostId, new_level |-> NULL, old_level |-> NULL]

\* The calls that have not returned.
InFlight == {p \in Approvers : frame.calls[p].pc # "idle"}

\* approve_privilege_escalation up to the UPDATE: the SELECT of the current
\* level, which opens no transaction; no row: return False.
ApproveSelect(p, m, new_level) ==
    /\ frame.calls[p].pc = "idle"
    /\ Len(audit) + Cardinality(InFlight) < MaxAudit
    /\ IF m \notin ModelIds(registry)
       THEN /\ frame' = frame
            /\ ret' = Returned("approve_privilege_escalation", BoolStr(FALSE))
       ELSE /\ frame' = [frame EXCEPT !.calls[p] =
                            [pc |-> "selected", model_id |-> m, new_level |-> new_level,
                             old_level |-> registry[m].privilege_level]]
            /\ ret' = ret
    /\ UNCHANGED <<registry, audit, usage, specialists, active_specialists, discoveries,
                   tasks, statusHistory, dbLocked, passLog>>

\* approve_privilege_escalation: the UPDATE and its commit.  stored remembers
\* the level the row held when the UPDATE ran.
ApproveUpdate(p) ==
    /\ frame.calls[p].pc = "selected"
    /\ LET call == frame.calls[p]
       IN  /\ registry' = [registry EXCEPT ![call.model_id].privilege_level = call.new_level]
           /\ frame' = [frame EXCEPT !.calls[p].pc = "updated",
                                     !.stored[p] = registry[call.model_id].privilege_level]
    /\ UNCHANGED <<audit, usage, specialists, active_specialists, discoveries,
                   tasks, statusHistory, dbLocked, passLog, ret>>

\* approve_privilege_escalation: _audit_action in a connection of its own,
\* and return True.  approved remembers, for the row appended, the level the
\* UPDATE of this call replaced.
ApproveAudit(p) ==
    /\ frame.calls[p].pc = "updated"
    /\ LET call == frame.calls[p]
       IN  /\ audit' = AuditAction(audit, call.model_id, "ESCALATION_APPROVED",
                                   call.old_level, call.new_level)
           /\ frame' = [frame EXCEPT !.calls[p] = IdleCall,
                                     !.approved = @ \cup {[entry |-> Len(audit) + 1,
                                                           replaced |-> frame.stored[p]]}]
    /\ ret' = Returned("approve_privilege_escalation", BoolStr(TRUE))
    /\ UNCHANGED <<registry, usage, specialists, active_specialists, discoveries,
                   tasks, statusHistory, dbLocked, passLog>>

InitApprovers ==
    /\ EmptyStores
    /\ frame = [op |-> "approvers", calls |-> [p \in Approvers |-> IdleCall],
                stored |-> [p \in Approvers |-> NULL], approved |-> {}]

NextApprovers ==
    \/ \E level \in PrivilegeLevel :
          /\ Len(audit) + Cardinality(InFlight) < MaxAudit
          /\ RegisterModel(level, NoCustom)
    \/ \E p \in Approvers, m \in CallerModelIds, level \in PrivilegeLevel :
          ApproveSelect(p, m, level)
    \/ \E p \in Approvers : ApproveUpdate(p)
    \/ \E p \in Approvers : ApproveAudit(p)

\* Two calls of approve_privilege_escalation interleaving at their commits.
SpecApprovers == InitApprovers /\ [][NextApprovers]_vars

----------------------------------------------------------------------------

(* Queue pass, concurrency and privilege level claims *)

C32_CreatesOnlyForNewDomain ==
    [][ProcessQueue =>
          LET after == active_specialists'
              created == (Len(active_specialists) + 1)..Len(after)
              begun == passLog'.begun
          IN  /\ \A i \in created :
                    /\ \E k \in 1..Len(begun) : tasks[begun[k]].domain = after[i].domain
                    /\ \A j \in 1..(i - 1) : after[j].domain # after[i].domain
              /\ begun # <<>> =>
                    LET domain == tasks[begun[1]].domain
                        r == FindOrCreateSpecialist(World, begun[1])
                    IN  r.id # NoId =>
                            /\ r.w.active[r.id].domain = domain
                            /\ r.id > Len(active_specialists) <=> OfDomain(domain) = {}
    ]_vars

\* A pass has handled a task whose domain has a specialist, next to a
\* specialist of another domain.
C32_Witness ==
    /\ ret.op = "process_queue"
    /\ Len(passLog.begun) = 1
    /\ Len(active_specialists) = 2
    /\ active_specialists[1].domain # active_specialists[2].domain
    /\ \E i \in 1..2 : active_specialists[i].domain = tasks[passLog.begun[1]].domain

\* The terminal statuses written to a task, in order.
TerminalWrites(task_id) ==
    SelectSeq(statusHistory[task_id], LAMBDA s : s \in Terminal)

ApprovedEntries(m) ==
    SelectSeq(audit, LAMBDA row : row.action = "ESCALATION_APPROVED" /\ row.model_id = m)

\* C35: when two calls of approve_privilege_escalation on one model
\* interleave, every ESCALATION_APPROVED entry carries as old_privilege the
\* level that was stored immediately before the level write of its call, and
\* once both calls have returned the stored level is the new_privilege of the
\* last ESCALATION_APPROVED entry of the model.
C35_AuditMatchesWrites ==
    frame.op = "approvers" =>
        /\ \A a \in frame.approved : audit[a.entry].old_privilege = a.replaced
        /\ InFlight = {} =>
              \A m \in ModelIds(registry) :
                  ApprovedEntries(m) # <<>> =>
                      registry[m].privilege_level
                          = ApprovedEntries(m)[Len(ApprovedEntries(m))].new_privilege

\* C36: the pattern list of a specialist is never empty and never shrinks:
\* create_specialist seeds at least one pattern for every domain, in the dict
\* entry and in the row; no step leaves a specialist with fewer patterns than
\* it had; for a specialist that is new or changed, the list
\* train_specialist_on_task would assign from any task and any draw is at
\* least as long as the one it replaces, and process_with_specialist does not
\* divide by a count of zero.
C36_PatternsNeverEmptyNorShrink ==
    [][ /\ \A i \in 1..Len(active_specialists') :
              /\ Len(active_specialists'[i].patterns) >= 1
              /\ Len(specialists'[i].patterns) >= 1
        /\ \A i \in 1..Len(active_specialists) :
              Len(active_specialists'[i].patterns) >= Len(active_specialists[i].patterns)
        /\ \A i \in 1..Len(active_specialists') :
              (i > Len(active_specialists) \/ active_specialists'[i] # active_specialists[i]) =>
                  LET patterns == active_specialists'[i].patterns
                  IN  /\ \A description \in Descriptions, draw \in NovelChoices :
                            Len(SynthesizePatterns(patterns,
                                    DiscoverTaskPatterns(description, draw))) >= Len(patterns)
                      /\ \A input_data \in ProcessInputs :
                            ProcessKnown(World', i, input_data).w.exc # "ZeroDivisionError"
    ]_vars

\* train_specialist_on_task was called on a specialist of a domain outside the
\* table of _get_domain_patterns, which holds the one general pattern.
C36_Witness ==
    /\ ret.op = "train_specialist_on_task"
    /\ \E i \in 1..Len(active_specialists) :
          /\ active_specialists[i].domain = "logistics"
          /\ Len(active_specialists[i].patterns) = 1
          /\ Len(specialists[i].patterns) = 1

\* C37: for every specialist created by create_specialist, at any of the
\* three levels and after any sequence of request_privilege_escalation and
\* approve_privilege_escalation calls, get_model_privileges finds its model
\* and grants both model_training and pattern_discovery; so neither
\* train_specialist_on_task (also as called by process_queue) nor
\* process_with_specialist takes its privilege-denied branch.
C37_SpecialistsKeepBothPrivileges ==
    /\ \A i \in 1..Len(active_specialists) :
          LET m == active_specialists[i].model_id
          IN  /\ KnownActive(registry, m)
              /\ PrivGet(GetModelPrivileges(registry, m), "model_training")
              /\ PrivGet(GetModelPrivileges(registry, m), "pattern_discovery")
              /\ \A description \in LayerDescriptions :
                    TrainCall(World, i, description, NoNovel).result
                        # "error: Specialist lacks training privileges"
              /\ \A input_data \in ProcessInputs :
                    ProcessCall(World, i, input_data).result
                        # "error: Specialist lacks execution privileges"
    /\ ret.val \notin {"error: Specialist lacks training privileges",
                       "error: Specialist lacks execution privileges"}

\* A specialist created at the DESKTOP level was taken down to RESTRICTED by an
\* approval, and train_specialist_on_task was then called.
C37_Witness ==
    /\ ret.op = "train_specialist_on_task"
    /\ \E i \in 1..Len(active_specialists) :
          /\ active_specialists[i].privilege_level = DESKTOP
          /\ registry[active_specialists[i].model_id].privilege_level = RESTRICTED
    /\ \E k \in 1..Len(audit) : audit[k].action = "ESCALATION_APPROVED"

\* C38: _has_modular_pattern is True for every list of finite numbers (two
\* remainders are all that modulus 2 leaves), so discover_pattern called with
\* no field or with the field "arithmetic" always reports the modular
\* pattern, with confidence 0.88, and never returns best_pattern None.
C38_ModularAlwaysReported ==
    (DiscoverReturned /\ frame.field \in {NULL, "arithmetic"}) =>
        /\ HasModularPattern(frame.data)
        /\ \E k \in 1..Len(frame.result.discoveries) :
              /\ frame.result.discoveries[k].pattern = "modular"
              /\ frame.result.discoveries[k].field = "arithmetic"
              /\ frame.result.discoveries[k].confidence = 88
        /\ frame.result.best_pattern # None

\* discover_pattern(data, "arithmetic") has returned for four different whole
\* numbers, which leave more than two remainders for every modulus but 2, and
\* the modular pattern is the best it found.
C38_Witness ==
    /\ DiscoverReturned
    /\ frame.field = "arithmetic"
    /\ Len(frame.data) = 4
    /\ \A i, j \in 1..4 : i # j => frame.data[i] # frame.data[j]
    /\ \A modulus \in Moduli \ {2} :
          Cardinality({IntOf(frame.data[i]) % modulus : i \in 1..4}) > 2
    /\ frame.result.best_pattern.pattern = "modular"

\* C39: after any sequence of register_model, request_privilege_escalation
\* and approve_privilege_escalation calls, with unknown model ids among them,
\* the model_id of every row of the audit log is that of a row of the
\* registry.
C39_AuditRefersToRegistry ==
    \A k \in 1..Len(audit) : audit[k].model_id \in ModelIds(registry)

\* C40: the privilege level recorded on a specialist, in its dict entry and
\* in its row of the specialists table, is the privilege_level of the
\* registry row of its model, also after approve_privilege_escalation has
\* changed that row.
C40_SpecialistLevelMatchesRegistry ==
    \A i \in 1..Len(active_specialists) :
        LET m == active_specialists[i].model_id
        IN  /\ m \in ModelIds(registry)
            /\ active_specialists[i].privilege_level = registry[m].privilege_level
            /\ specialists[i].privilege_level = registry[m].privilege_level

============================================================================
